---------------------------- MODULE Spec2Model ----------------------------
(***************************************************************************)
(* SQLQuerier of pkg/sqlite/query.go: nine read-only queries over the     *)
(* catalog tables package, channel, operatorbundle, channel_entry and     *)
(* api_provider.  Every query is modelled in three layers, as the code    *)
(* runs it:                                                               *)
(*   1. the row set the SQL text selects (joins, WHERE, GROUP BY, MIN,    *)
(*      DISTINCT, with SQL's NULL comparison rules);                      *)
(*   2. the cursor: the engine hands the rows over in an order of its     *)
(*      choice (no query has an ORDER BY), and rows.Next() reports false  *)
(*      at the end of the rows or as soon as the caller's context is done;*)
(*   3. the Go handler: the Scan/decode loop and the error returns.       *)
(***************************************************************************)
EXTENDS Integers, Sequences, FiniteSets, TLC

VARIABLES package, channel, operatorbundle, channel_entry, api_provider, call

store == <<package, channel, operatorbundle, channel_entry, api_provider>>
vars == <<package, channel, operatorbundle, channel_entry, api_provider, call>>

-----------------------------------------------------------------------------
(* Bounds of the catalogs explored.                                        *)

MaxEntries == 3
MaxDepth == 2

PackageNames == {"p1", "p2"}
ChannelNames == {"a", "b", "c"}
BundleNames == {"b1", "b2", "b3"}
\* One API descriptor that entries provide, one that differs in the version
\* only, and one that no entry provides.
API1 == <<"g", "v1", "K">>
API2 == <<"g", "v2", "K">>
APIs == {API1, API2}

-----------------------------------------------------------------------------
(* SQL values.  A text column holds a string or NULL; the integer column   *)
(* channel_entry.replaces holds an entry id (positive) or NULL.            *)

NULL == "<NULL>"
NULLID == 0

\* sql.NullString: .Valid and .String (the empty string when not valid).
Valid(v) == v # NULL
Str(v) == IF v = NULL THEN "" ELSE v

\* SQL's "=": never true when either side is NULL.
SqlEq(a, b) == a # NULL /\ b # NULL /\ a = b
SqlEqId(a, b) == a # NULLID /\ b # NULLID /\ a = b

\* The orders in which a cursor may hand over the rows of a row set.
RECURSIVE Orders(_)
Orders(S) ==
    IF S = {} THEN {<<>>}
    ELSE UNION {{<<x>> \o s : s \in Orders(S \ {x})} : x \in S}

\* LIMIT 1.
Limit1(rows) == IF Len(rows) > 1 THEN SubSeq(rows, 1, 1) ELSE rows


-----------------------------------------------------------------------------
(* Layer 1: the row set each SQL text selects.                             *)

\* SELECT DISTINCT name FROM package
ListPackagesRows == {p.name : p \in package}

\* SELECT DISTINCT package.name, default_channel, channel.name,
\*   channel.head_operatorbundle_name
\* FROM package INNER JOIN channel ON channel.package_name=package.name
\* WHERE package.name=?
GetPackageRows(name) ==
    {<<pc[1].name, pc[1].default_channel, pc[2].name, pc[2].head_operatorbundle_name>> :
        pc \in {x \in package \X channel :
                    /\ SqlEq(x[2].package_name, x[1].name)
                    /\ SqlEq(x[1].name, name)}}

\* SELECT DISTINCT operatorbundle.bundle
\* FROM channel INNER JOIN operatorbundle
\*   ON channel.head_operatorbundle_name=operatorbundle.name
\* WHERE channel.package_name=? AND channel.name=?
GetBundleForChannelRows(pkgName, channelName) ==
    {co[2].bundle :
        co \in {x \in channel \X operatorbundle :
                    /\ SqlEq(x[1].head_operatorbundle_name, x[2].name)
                    /\ SqlEq(x[1].package_name, pkgName)
                    /\ SqlEq(x[1].name, channelName)}}

\* SELECT DISTINCT operatorbundle.bundle FROM operatorbundle
\* WHERE operatorbundle.name=?
GetBundleForNameRows(name) ==
    {ob.bundle : ob \in {x \in operatorbundle : SqlEq(x.name, name)}}

\* GetChannelEntriesThatReplaceRows with the join turned round: the entries
\* that the entry carrying the name replaces.
ReplacedByRows(name) ==
    {<<er[2].package_name, er[2].channel_name, er[2].operatorbundle_name>> :
        er \in {x \in channel_entry \X channel_entry :
                    /\ SqlEqId(x[1].replaces, x[2].entry_id)
                    /\ SqlEq(x[1].operatorbundle_name, name)}}

\* SELECT DISTINCT channel_entry.package_name, channel_entry.channel_name,
\*   channel_entry.operatorbundle_name
\* FROM channel_entry LEFT OUTER JOIN channel_entry replaces
\*   ON channel_entry.replaces = replaces.entry_id
\* WHERE replaces.operatorbundle_name = ?
\* (the WHERE on the right-hand table drops the rows the outer join padded)
GetChannelEntriesThatReplaceRows(name) ==
    {<<er[1].package_name, er[1].channel_name, er[1].operatorbundle_name>> :
        er \in {x \in channel_entry \X channel_entry :
                    /\ SqlEqId(x[1].replaces, x[2].entry_id)
                    /\ SqlEq(x[2].operatorbundle_name, name)}}

\* GetBundleThatReplacesRows as if the replaced entry were found by its
\* bundle name alone, in whatever channel it lies.
ReplacesInAnyChannelRows(name, pkgName, channelName) ==
    {ero[3].bundle :
        ero \in {x \in channel_entry \X channel_entry \X operatorbundle :
                    /\ SqlEqId(x[2].replaces, x[1].entry_id)
                    /\ SqlEq(x[2].operatorbundle_name, x[3].name)
                    /\ SqlEq(x[1].operatorbundle_name, name)}}

\* SELECT DISTINCT operatorbundle.bundle
\* FROM channel_entry
\* LEFT OUTER JOIN channel_entry replaces ON replaces.replaces = channel_entry.entry_id
\* INNER JOIN operatorbundle ON replaces.operatorbundle_name = operatorbundle.name
\* WHERE channel_entry.operatorbundle_name = ? AND channel_entry.package_name = ?
\*   AND channel_entry.channel_name = ?
GetBundleThatReplacesRows(name, pkgName, channelName) ==
    {ero[3].bundle :
        ero \in {x \in channel_entry \X channel_entry \X operatorbundle :
                    /\ SqlEqId(x[2].replaces, x[1].entry_id)
                    /\ SqlEq(x[2].operatorbundle_name, x[3].name)
                    /\ SqlEq(x[1].operatorbundle_name, name)
                    /\ SqlEq(x[1].package_name, pkgName)
                    /\ SqlEq(x[1].channel_name, channelName)}}

\* WHERE api_provider.groupOrName = ? AND api_provider.version = ?
\*   AND api_provider.kind = ?
ApiMatches(ap, groupOrName, version, kind) ==
    /\ SqlEq(ap.groupOrName, groupOrName)
    /\ SqlEq(ap.version, version)
    /\ SqlEq(ap.kind, kind)

\* ReplacesNames as if the replaces column were never joined.
NoReplacesNames(e) == {NULL}

\* replaces.operatorbundle_name of
\*   LEFT OUTER JOIN channel_entry replaces ON channel_entry.replaces = replaces.entry_id
\* for the entry e: the bundle names of the joined rows, NULL where the
\* join finds no row.
ReplacesNames(e) ==
    LET rs == {r \in channel_entry : SqlEqId(e.replaces, r.entry_id)}
    IN  IF rs = {} THEN {NULL} ELSE {r.operatorbundle_name : r \in rs}

\* The rows of channel_entry INNER JOIN api_provider LEFT OUTER JOIN replaces
\* that pass the WHERE of the two provider listings, each with the columns
\* the queries read.
ProvideJoin(groupOrName, version, kind) ==
    UNION {{[package_name |-> ea[1].package_name,
             channel_name |-> ea[1].channel_name,
             operatorbundle_name |-> ea[1].operatorbundle_name,
             replaces_name |-> rn,
             depth |-> ea[1].depth] : rn \in ReplacesNames(ea[1])} :
        ea \in {x \in channel_entry \X api_provider :
                    /\ SqlEqId(x[1].entry_id, x[2].channel_entry_id)
                    /\ ApiMatches(x[2], groupOrName, version, kind)}}

\* SELECT DISTINCT channel_entry.package_name, channel_entry.channel_name,
\*   channel_entry.operatorbundle_name, replaces.operatorbundle_name
GetChannelEntriesThatProvideRows(groupOrName, version, kind) ==
    {<<j.package_name, j.channel_name, j.operatorbundle_name, j.replaces_name>> :
        j \in ProvideJoin(groupOrName, version, kind)}

\* GROUP BY channel_entry.package_name, channel_entry.channel_name: the
\* groups of a joined row set.
GroupKeys(J) == {<<j.package_name, j.channel_name>> : j \in J}
Group(J, k) == {j \in J : <<j.package_name, j.channel_name>> = k}

\* MIN(channel_entry.depth) over a group.
MinDepth(G) == CHOOSE d \in {j.depth : j \in G} : \A j \in G : d <= j.depth

\* MinRows as if the bare columns came from any row of the group.
AnyRows(G) == G

\* The bare columns beside MIN(): the engine takes them from a row of the
\* group that holds the minimum.
MinRows(G) == {j \in G : j.depth = MinDepth(G)}

\* The result sets a grouped query may produce over the joined rows J: one
\* row per group, taken from one of the group's minimum rows.
GroupedSets(J) ==
    {{pick[k] : k \in GroupKeys(J)} :
        pick \in {f \in [GroupKeys(J) -> J] :
                     \A k \in GroupKeys(J) : f[k] \in MinRows(Group(J, k))}}

\* SELECT DISTINCT channel_entry.package_name, channel_entry.channel_name,
\*   channel_entry.operatorbundle_name, replaces.operatorbundle_name,
\*   MIN(channel_entry.depth) ... GROUP BY package_name, channel_name
GetLatestChannelEntriesThatProvideRowSets(groupOrName, version, kind) ==
    {{<<j.package_name, j.channel_name, j.operatorbundle_name, j.replaces_name, j.depth>> :
         j \in S} :
        S \in GroupedSets(ProvideJoin(groupOrName, version, kind))}

\* DefaultProvideJoin without "package.default_channel = channel_entry.channel_name".
AnyChannelProvideJoin(groupOrName, version, kind) ==
    {[package_name |-> x[1].package_name,
      channel_name |-> x[1].channel_name,
      bundle |-> x[3].bundle,
      depth |-> x[1].depth] :
        x \in {y \in channel_entry \X api_provider \X operatorbundle \X package :
                    /\ SqlEqId(y[1].entry_id, y[2].channel_entry_id)
                    /\ SqlEq(y[3].name, y[1].operatorbundle_name)
                    /\ SqlEq(y[4].name, y[1].package_name)
                    /\ ApiMatches(y[2], groupOrName, version, kind)}}

\* The rows of channel_entry INNER JOIN api_provider INNER JOIN operatorbundle
\* INNER JOIN package that pass the WHERE of GetBundleThatProvides.
DefaultProvideJoin(groupOrName, version, kind) ==
    {[package_name |-> x[1].package_name,
      channel_name |-> x[1].channel_name,
      bundle |-> x[3].bundle,
      depth |-> x[1].depth] :
        x \in {y \in channel_entry \X api_provider \X operatorbundle \X package :
                    /\ SqlEqId(y[1].entry_id, y[2].channel_entry_id)
                    /\ SqlEq(y[3].name, y[1].operatorbundle_name)
                    /\ SqlEq(y[4].name, y[1].package_name)
                    /\ ApiMatches(y[2], groupOrName, version, kind)
                    /\ SqlEq(y[4].default_channel, y[1].channel_name)}}

\* SELECT DISTINCT operatorbundle.bundle, MIN(channel_entry.depth)
\*   ... GROUP BY channel_entry.package_name, channel_entry.channel_name
GetBundleThatProvidesRowSets(groupOrName, version, kind) ==
    {{<<j.bundle, j.depth>> : j \in S} :
        S \in GroupedSets(DefaultProvideJoin(groupOrName, version, kind))}

-----------------------------------------------------------------------------
(* Layer 2: the cursor.  QueryContext fails when the context is already    *)
(* done; otherwise the handler sees the rows in the engine's order, and    *)
(* rows.Next() reports false after the last row or, once the context is    *)
(* done, before it.  No handler consults rows.Err().                       *)

Contexts == {"live", "done_at_query", "done_in_rows"}

\* How many rows rows.Next() hands over before it reports false.
RowsRead(ctx, rows) ==
    CASE ctx = "live" -> {Len(rows)}
      [] ctx = "done_at_query" -> {0}
      [] ctx = "done_in_rows" -> 0 .. (Len(rows) - 1)

\* err != nil after s.db.QueryContext(context, ...)
QueryFails(ctx) == ctx = "done_at_query"

\* The row sequences a query over the row set S may hand to the handler: no
\* rows when the query fails, else S in an order of the engine's choice.
Cursors(ctx, S) == IF QueryFails(ctx) THEN {<<>>} ELSE Orders(S)

-----------------------------------------------------------------------------
(* Layer 3: the handlers.  An outcome is the pair the Go function returns: *)
(* kind "ok" (err == nil), "notfound" (the fmt.Errorf of the handler) or   *)
(* "error" (the error QueryContext returned); nil tells a nil slice or     *)
(* pointer from an empty one; val is the value beside the error.           *)

Ok(v) == [kind |-> "ok", nil |-> FALSE, val |-> v]
Failed(kind, isNil, zero) == [kind |-> kind, nil |-> isNil, val |-> zero]

\* registry.PackageManifest with its Channels slice.
Manifest(pkgName, defaultChannel, channels) ==
    [PackageName |-> pkgName, DefaultChannelName |-> defaultChannel,
     Channels |-> channels]
NoManifest == Manifest("", "", <<>>)
PackageChannel(row) == [Name |-> Str(row[3]), CurrentCSVName |-> Str(row[4])]

\* registry.ChannelEntry
ChannelEntry(pkgName, channelName, bundleName, replaces) ==
    [PackageName |-> pkgName, ChannelName |-> channelName,
     BundleName |-> bundleName, Replaces |-> replaces]

\* for rows.Next() { if pkgName.Valid { packages = append(...) } }
RECURSIVE ValidNames(_)
ValidNames(cursor) ==
    IF cursor = <<>> THEN <<>>
    ELSE (IF Valid(Head(cursor)) THEN <<Head(cursor)>> ELSE <<>>)
             \o ValidNames(Tail(cursor))

\* ListPackagesReturn as if an empty list were an error, as in the listings
\* of channel entries.
ListPackagesNotFoundReturn(ctx, cursor) ==
    IF QueryFails(ctx) THEN Failed("error", TRUE, <<>>)
    ELSE IF Len(ValidNames(cursor)) = 0 THEN Failed("notfound", TRUE, <<>>)
    ELSE Ok(ValidNames(cursor))

ListPackagesReturn(ctx, cursor) ==
    IF QueryFails(ctx) THEN Failed("error", TRUE, <<>>)
    ELSE Ok(ValidNames(cursor))

\* The first row makes the manifest, a second row adds one channel, and the
\* cursor is not read further.
GetPackageReturn(ctx, cursor) ==
    IF QueryFails(ctx) THEN Failed("error", TRUE, NoManifest)
    ELSE IF Len(cursor) = 0 THEN Failed("notfound", TRUE, NoManifest)
    ELSE Ok(Manifest(Str(cursor[1][1]), Str(cursor[1][2]),
                     IF Len(cursor) >= 2
                     THEN <<PackageChannel(cursor[1]), PackageChannel(cursor[2])>>
                     ELSE <<PackageChannel(cursor[1])>>))

\* BundleReturn with the bundle.Valid test of GetBundleThatProvides.
ValidBundleReturn(ctx, cursor) ==
    IF QueryFails(ctx) THEN Failed("error", FALSE, "")
    ELSE IF Len(cursor) = 0 THEN Failed("notfound", FALSE, "")
    ELSE IF ~Valid(cursor[1]) THEN Failed("notfound", FALSE, "")
    ELSE Ok(Str(cursor[1]))

\* GetBundleForChannel, GetBundleForName, GetBundleThatReplaces: the first
\* row's bundle column, as bundle.String.
BundleReturn(ctx, cursor) ==
    IF QueryFails(ctx) THEN Failed("error", FALSE, "")
    ELSE IF Len(cursor) = 0 THEN Failed("notfound", FALSE, "")
    ELSE Ok(Str(cursor[1]))

\* The loop of GetChannelEntriesThatReplace: Replaces is the argument.
ReplaceEntries(cursor, name) ==
    [i \in 1 .. Len(cursor) |->
        ChannelEntry(Str(cursor[i][1]), Str(cursor[i][2]), Str(cursor[i][3]), name)]

GetChannelEntriesThatReplaceReturn(ctx, cursor, name) ==
    IF QueryFails(ctx) THEN Failed("error", TRUE, <<>>)
    ELSE IF Len(cursor) = 0 THEN Failed("notfound", FALSE, <<>>)
    ELSE Ok(ReplaceEntries(cursor, name))

\* The loop of the two provider listings: Replaces is the fourth column.
ProvideEntries(cursor) ==
    [i \in 1 .. Len(cursor) |->
        ChannelEntry(Str(cursor[i][1]), Str(cursor[i][2]), Str(cursor[i][3]),
                     Str(cursor[i][4]))]

GetChannelEntriesThatProvideReturn(ctx, cursor) ==
    IF QueryFails(ctx) THEN Failed("error", TRUE, <<>>)
    ELSE IF Len(cursor) = 0 THEN Failed("notfound", FALSE, <<>>)
    ELSE Ok(ProvideEntries(cursor))

GetLatestChannelEntriesThatProvideReturn(ctx, cursor) ==
    IF QueryFails(ctx) THEN Failed("error", TRUE, <<>>)
    ELSE IF Len(cursor) = 0 THEN Failed("notfound", TRUE, <<>>)
    ELSE Ok(ProvideEntries(cursor))

\* The first row's bundle column; a NULL bundle is reported as not found.
GetBundleThatProvidesReturn(ctx, cursor) ==
    IF QueryFails(ctx) THEN Failed("error", FALSE, "")
    ELSE IF Len(cursor) = 0 THEN Failed("notfound", FALSE, "")
    ELSE IF ~Valid(cursor[1][1]) THEN Failed("notfound", FALSE, "")
    ELSE Ok(Str(cursor[1][1]))

-----------------------------------------------------------------------------
(* The operations.  call records the last call: its operation, arguments,  *)
(* the fate of its context, the rows the query selected and how many the   *)
(* handler read, and what it returned.  No operation writes the store.     *)

NoCall == [op |-> "none", args |-> <<>>, ctx |-> "live", rows |-> <<>>,
           read |-> 0, out |-> Ok(<<>>)]

Idle == call = NoCall

Called(op, args, ctx, rows, n, out) ==
    /\ call' = [op |-> op, args |-> args, ctx |-> ctx, rows |-> rows,
                read |-> n, out |-> out]
    /\ UNCHANGED store

ListPackages ==
    /\ Idle
    /\ \E ctx \in Contexts :
        \E rows \in Cursors(ctx, ListPackagesRows) :
            \E n \in RowsRead(ctx, rows) :
                Called("ListPackages", <<>>, ctx, rows, n,
                       ListPackagesReturn(ctx, SubSeq(rows, 1, n)))

GetPackage(name) ==
    /\ Idle
    /\ \E ctx \in Contexts :
        \E rows \in Cursors(ctx, GetPackageRows(name)) :
            \E n \in RowsRead(ctx, rows) :
                Called("GetPackage", <<name>>, ctx, rows, n,
                       GetPackageReturn(ctx, SubSeq(rows, 1, n)))

GetBundleForChannel(pkgName, channelName) ==
    /\ Idle
    /\ \E ctx \in Contexts :
        \E all \in Cursors(ctx, GetBundleForChannelRows(pkgName, channelName)) :
            \E n \in RowsRead(ctx, Limit1(all)) :
                Called("GetBundleForChannel", <<pkgName, channelName>>, ctx,
                       Limit1(all), n,
                       BundleReturn(ctx, SubSeq(Limit1(all), 1, n)))

GetBundleForName(name) ==
    /\ Idle
    /\ \E ctx \in Contexts :
        \E all \in Cursors(ctx, GetBundleForNameRows(name)) :
            \E n \in RowsRead(ctx, Limit1(all)) :
                Called("GetBundleForName", <<name>>, ctx, Limit1(all), n,
                       BundleReturn(ctx, SubSeq(Limit1(all), 1, n)))

GetChannelEntriesThatReplace(name) ==
    /\ Idle
    /\ \E ctx \in Contexts :
        \E rows \in Cursors(ctx, GetChannelEntriesThatReplaceRows(name)) :
            \E n \in RowsRead(ctx, rows) :
                Called("GetChannelEntriesThatReplace", <<name>>, ctx, rows, n,
                       GetChannelEntriesThatReplaceReturn(ctx, SubSeq(rows, 1, n), name))

GetBundleThatReplaces(name, pkgName, channelName) ==
    /\ Idle
    /\ \E ctx \in Contexts :
        \E all \in Cursors(ctx, GetBundleThatReplacesRows(name, pkgName, channelName)) :
            \E n \in RowsRead(ctx, Limit1(all)) :
                Called("GetBundleThatReplaces", <<name, pkgName, channelName>>, ctx,
                       Limit1(all), n,
                       BundleReturn(ctx, SubSeq(Limit1(all), 1, n)))

GetChannelEntriesThatProvide(groupOrName, version, kind) ==
    /\ Idle
    /\ \E ctx \in Contexts :
        \E rows \in Cursors(ctx, GetChannelEntriesThatProvideRows(groupOrName, version, kind)) :
            \E n \in RowsRead(ctx, rows) :
                Called("GetChannelEntriesThatProvide", <<groupOrName, version, kind>>,
                       ctx, rows, n,
                       GetChannelEntriesThatProvideReturn(ctx, SubSeq(rows, 1, n)))

GetLatestChannelEntriesThatProvide(groupOrName, version, kind) ==
    /\ Idle
    /\ \E ctx \in Contexts :
        \E set \in GetLatestChannelEntriesThatProvideRowSets(groupOrName, version, kind) :
            \E rows \in Cursors(ctx, set) :
                \E n \in RowsRead(ctx, rows) :
                    Called("GetLatestChannelEntriesThatProvide",
                           <<groupOrName, version, kind>>, ctx, rows, n,
                           GetLatestChannelEntriesThatProvideReturn(ctx, SubSeq(rows, 1, n)))

GetBundleThatProvides(groupOrName, version, kind) ==
    /\ Idle
    /\ \E ctx \in Contexts :
        \E set \in GetBundleThatProvidesRowSets(groupOrName, version, kind) :
            \E rows \in Cursors(ctx, set) :
                \E n \in RowsRead(ctx, rows) :
                    Called("GetBundleThatProvides", <<groupOrName, version, kind>>,
                           ctx, rows, n,
                           GetBundleThatProvidesReturn(ctx, SubSeq(rows, 1, n)))

\* The caller has taken the result; the querier keeps nothing of the call.
Returned ==
    /\ call # NoCall
    /\ call' = NoCall
    /\ UNCHANGED store

Next ==
    \/ Returned
    \/ ListPackages
    \/ \E name \in PackageNames : GetPackage(name)
    \/ \E pkgName \in PackageNames, channelName \in ChannelNames :
           GetBundleForChannel(pkgName, channelName)
    \/ \E name \in BundleNames : GetBundleForName(name)
    \/ \E name \in BundleNames : GetChannelEntriesThatReplace(name)
    \/ \E name \in BundleNames, pkgName \in PackageNames, channelName \in {"a", "b"} :
           GetBundleThatReplaces(name, pkgName, channelName)
    \/ \E api \in APIs : GetChannelEntriesThatProvide(api[1], api[2], api[3])
    \/ \E api \in APIs : GetLatestChannelEntriesThatProvide(api[1], api[2], api[3])
    \/ \E api \in APIs : GetBundleThatProvides(api[1], api[2], api[3])

-----------------------------------------------------------------------------
(* The catalogs.  The store is written by the catalog build before the     *)
(* querier opens it (immutable=true), so a behaviour starts from a catalog *)
(* and only reads it.  Three families of catalogs are explored: the empty  *)
(* store, catalogs that vary the package and channel tables, and catalogs  *)
(* that vary the upgrade graph and the provider mapping.                   *)

Payload(name) == "payload of " \o name

PackageRow(name, defaultChannel) == [name |-> name, default_channel |-> defaultChannel]
ChannelRow(pkgName, name, head) ==
    [package_name |-> pkgName, name |-> name, head_operatorbundle_name |-> head]
BundleRow(name, bundle) == [name |-> name, bundle |-> bundle]
ProviderRow(id, api) ==
    [channel_entry_id |-> id, groupOrName |-> api[1], version |-> api[2], kind |-> api[3]]

\* Entries 1..n from their columns: b[i] = <<<<package, channel>>, bundle, depth>>
\* and r[i] = the entry i replaces.
EntryTable(n, b, r) ==
    {[entry_id |-> i, package_name |-> b[i][1][1], channel_name |-> b[i][1][2],
      operatorbundle_name |-> b[i][2], replaces |-> r[i], depth |-> b[i][3]] :
        i \in 1 .. n}

\* Entry ids are given out package by package, channel by channel, from the
\* head down.
Less(x, y) ==
    \/ x[1][1] # y[1][1] /\ x[1][1] = "p1"
    \/ x[1][1] = y[1][1] /\ x[1][2] # y[1][2] /\ x[1][2] = "a"
    \/ x[1] = y[1] /\ x[3] < y[3]
    \/ x[1] = y[1] /\ x[3] = y[3] /\ x[2] = "b1" /\ y[2] # "b1"
    \/ x[1] = y[1] /\ x[3] = y[3] /\ x[2] = "b2" /\ y[2] = "b3"
LoadOrder(n, b) == \A i, j \in 1 .. n : i < j => ~Less(b[j], b[i])

\* A bundle has one place in a channel: its entries there share a depth.
OnePlace(n, b) ==
    \A i, j \in 1 .. n : b[i][1] = b[j][1] /\ b[i][2] = b[j][2] => b[i][3] = b[j][3]

\* A replaces reference is NULL or names an entry of the same channel that
\* lies one step further from the head, and every entry below the head is
\* the one some entry replaces.
Linked(n, b, r) ==
    /\ \A i \in 1 .. n :
           r[i] # NULLID =>
               /\ b[r[i]][1] = b[i][1]
               /\ b[r[i]][3] = b[i][3] + 1
    /\ \A i \in 1 .. n : b[i][3] > 0 => \E j \in 1 .. n : r[j] = i

\* The channels that hold entries of the upgrade graph; "b" is the channel
\* of p1 next to "a", and p2 has the one channel.
EntryChannels == {<<"p1", "a">>, <<"p1", "b">>, <<"p2", "a">>}

GraphEntryTables ==
    UNION {UNION {{EntryTable(n, b, r) :
                      r \in {q \in [1 .. n -> 0 .. n] : Linked(n, b, q)}} :
                  b \in {c \in [1 .. n -> EntryChannels \X BundleNames
                                              \X (0 .. MaxDepth)] :
                            LoadOrder(n, c) /\ OnePlace(n, c)}} :
           n \in 0 .. MaxEntries}

\* The channel table the entries imply: one channel per (package, channel)
\* that has entries, headed by the bundle of its first entry.
ChannelsOf(entries) ==
    {ChannelRow(k[1], k[2],
        LET own == {e \in entries : e.package_name = k[1] /\ e.channel_name = k[2]}
            first == CHOOSE e \in own : \A f \in own : e.entry_id <= f.entry_id
        IN  first.operatorbundle_name) :
        k \in {<<e.package_name, e.channel_name>> : e \in entries}}

\* The entries a channel table implies: the head of each channel, depth 0.
HeadsOf(channels) ==
    LET heads == {c \in channels : Valid(c.head_operatorbundle_name)}
        ids == CHOOSE f \in [heads -> 1 .. Cardinality(heads)] :
                   \A c, d \in heads : c # d => f[c] # f[d]
    IN  {[entry_id |-> ids[c], package_name |-> c.package_name,
          channel_name |-> c.name,
          operatorbundle_name |-> c.head_operatorbundle_name,
          replaces |-> NULLID, depth |-> 0] : c \in heads}

InitEmpty ==
    /\ package = {}
    /\ channel = {}
    /\ operatorbundle = {}
    /\ channel_entry = {}
    /\ api_provider = {}

InitCatalog ==
    /\ \E d1 \in {"a", "b", "c"}, has2 \in BOOLEAN, nameless \in BOOLEAN :
           package = {PackageRow("p1", d1)}
                       \cup (IF has2 THEN {PackageRow("p2", "a")} ELSE {})
                       \cup (IF nameless THEN {PackageRow(NULL, "a")} ELSE {})
    /\ \E h \in [{"a", "b", "c"} -> {"b1", "b2", NULL, "none"}], has2 \in BOOLEAN :
           channel = {ChannelRow("p1", c, h[c]) : c \in {x \in DOMAIN h : h[x] # "none"}}
                       \cup (IF has2 THEN {ChannelRow("p2", "a", "b1")} ELSE {})
    /\ \E p2 \in {Payload("b2"), NULL} :
           operatorbundle = {BundleRow("b1", Payload("b1")), BundleRow("b2", p2)}
    /\ channel_entry = HeadsOf(channel)
    /\ api_provider = {}

InitGraph ==
    /\ package = {PackageRow("p1", "a"), PackageRow("p2", "a")}
    /\ operatorbundle = {BundleRow("b1", Payload("b1")), BundleRow("b2", NULL),
                         BundleRow("b3", Payload("b3"))}
    /\ channel_entry \in GraphEntryTables
    /\ channel = ChannelsOf(channel_entry)
    /\ \E provides \in SUBSET {e.entry_id : e \in channel_entry} :
           api_provider = {ProviderRow(e.entry_id,
                                       IF e.entry_id \in provides THEN API1 ELSE API2) :
                              e \in channel_entry}

Init ==
    /\ InitEmpty \/ InitCatalog \/ InitGraph
    /\ call = NoCall

Spec == Init /\ [][Next]_vars

-----------------------------------------------------------------------------
(* Vocabulary of the properties: the data model's reading of the store.    *)

Range(seq) == {seq[i] : i \in 1 .. Len(seq)}
NoDuplicates(seq) == \A i, j \in 1 .. Len(seq) : seq[i] = seq[j] => i = j

LiveCall(op) == call.op = op /\ call.ctx = "live"

\* The channel entries the provider mapping associates with an API.
ProvidersOf(api) ==
    {e \in channel_entry :
        \E ap \in api_provider :
            /\ ap.channel_entry_id = e.entry_id
            /\ <<ap.groupOrName, ap.version, ap.kind>> = api}

SameChannel(e, f) ==
    e.package_name = f.package_name /\ e.channel_name = f.channel_name

\* e is as close to the head as any entry of S in its (package, channel).
Shallowest(e, S) == \A f \in S : SameChannel(e, f) => e.depth <= f.depth

InDefaultChannel(e) ==
    \E p \in package : p.name = e.package_name /\ p.default_channel = e.channel_name

\* The bundle name of the entry e replaces, "" when it replaces nothing.
ReplacedName(e) ==
    IF \E r \in channel_entry : r.entry_id = e.replaces
    THEN (CHOOSE r \in channel_entry : r.entry_id = e.replaces).operatorbundle_name
    ELSE ""

\* The payloads stored under a bundle name, NULL included.
PayloadsOf(name) == {ob.bundle : ob \in {x \in operatorbundle : x.name = name}}

\* The invariants of the data model: names are unique, a channel's head is
\* an entry of depth 0 of that channel, a replaces reference names an entry
\* of the same channel one step further from the head, every entry's bundle
\* is stored, and a package's default channel is one of its channels.
DataModel ==
    /\ \A p, q \in package : p.name = q.name => p = q
    /\ \A c, d \in channel : c.package_name = d.package_name /\ c.name = d.name => c = d
    /\ \A x, y \in operatorbundle : x.name = y.name => x = y
    /\ \A e, f \in channel_entry : e.entry_id = f.entry_id => e = f
    /\ \A c \in channel :
           \E e \in channel_entry :
               /\ e.package_name = c.package_name /\ e.channel_name = c.name
               /\ e.operatorbundle_name = c.head_operatorbundle_name
               /\ e.depth = 0
    /\ \A e \in channel_entry :
           /\ PayloadsOf(e.operatorbundle_name) # {}
           /\ \E c \in channel : c.package_name = e.package_name /\ c.name = e.channel_name
           /\ e.replaces # NULLID =>
                  \E r \in channel_entry :
                      r.entry_id = e.replaces /\ SameChannel(e, r) /\ r.depth = e.depth + 1
    /\ \A p \in package :
           \E c \in channel : c.package_name = p.name /\ c.name = p.default_channel

-----------------------------------------------------------------------------
(* C1: GetBundleThatProvides.                                              *)

\* The providing entries that lie in their package's default channel.
DefaultProviders(api) == {e \in ProvidersOf(api) : InDefaultChannel(e)}

-----------------------------------------------------------------------------
(* C2: GetLatestChannelEntriesThatProvide.                                 *)

\* C2: the call fails NotFound exactly when no entry provides the API; on
\* success it returns exactly one entry for each (package, channel) that
\* holds a provider and none for any other, and the entry kept is a provider
\* of minimum depth among the providers of its (package, channel).
C2_OnePerChannelMinDepth ==
    LiveCall("GetLatestChannelEntriesThatProvide") =>
        LET P == ProvidersOf(call.args)
            res == call.out.val
        IN  /\ call.out.kind = "notfound" <=> P = {}
            /\ call.out.kind = "ok" <=> P # {}
            /\ call.out.kind = "ok" =>
                   /\ \A e \in P :
                          Cardinality({i \in 1 .. Len(res) :
                              /\ res[i].PackageName = e.package_name
                              /\ res[i].ChannelName = e.channel_name}) = 1
                   /\ \A i \in 1 .. Len(res) :
                          \E e \in P :
                              /\ res[i].PackageName = e.package_name
                              /\ res[i].ChannelName = e.channel_name
                              /\ res[i].BundleName = e.operatorbundle_name
                              /\ Shallowest(e, P)

\* A successful call on a catalog where one channel holds two providers at
\* different depths with different bundles and another channel holds a
\* provider as well.
C2_Witness ==
    /\ LiveCall("GetLatestChannelEntriesThatProvide")
    /\ call.out.kind = "ok"
    /\ \E e, f, g \in ProvidersOf(call.args) :
           /\ SameChannel(e, f)
           /\ e.depth < f.depth
           /\ e.operatorbundle_name # f.operatorbundle_name
           /\ ~SameChannel(e, g)

-----------------------------------------------------------------------------
(* C3: GetPackage.                                                         *)

ChannelsOfPackage(name) == {c \in channel : c.package_name = name}

\* C3 as stated: for a package stored with any number of channels and its
\* default channel among them, GetPackage succeeds, reports the default
\* channel, and lists the default channel with its head bundle.
C3_AsStated ==
    DataModel /\ LiveCall("GetPackage") =>
        \A p \in package, d \in ChannelsOfPackage(call.args[1]) :
            p.name = call.args[1] /\ d.name = p.default_channel =>
                /\ call.out.kind = "ok"
                /\ call.out.val.DefaultChannelName = p.default_channel
                /\ \E i \in 1 .. Len(call.out.val.Channels) :
                       call.out.val.Channels[i] =
                           [Name |-> d.name, CurrentCSVName |-> d.head_operatorbundle_name]

-----------------------------------------------------------------------------
(* C4: cancellation.                                                       *)

\* C4 as stated: a call whose context is done after the query was issued
\* and before the last row was read returns the context's failure, never a
\* result built from the rows read so far and never NotFound.
C4_AsStated ==
    call.ctx = "done_in_rows" /\ call.read < Len(call.rows) =>
        call.out.kind = "error"

-----------------------------------------------------------------------------
(* C5: GetChannelEntriesThatReplace.                                       *)

\* The entries whose replaces reference names an entry that carries the
\* bundle name.
DirectReplacers(name) ==
    {e \in channel_entry :
        \E r \in channel_entry :
            r.entry_id = e.replaces /\ r.operatorbundle_name = name}

\* C5: the call fails NotFound exactly when no entry replaces an entry that
\* carries the bundle name; on success the result is exactly the
\* (package, channel, bundle) projections of those entries, each once and
\* each with Replaces equal to the bundle name.
C5_DirectReplacersOnly ==
    LiveCall("GetChannelEntriesThatReplace") =>
        LET S == DirectReplacers(call.args[1]) IN
        /\ call.out.kind = "notfound" <=> S = {}
        /\ call.out.kind = "ok" <=> S # {}
        /\ call.out.kind = "ok" =>
               /\ NoDuplicates(call.out.val)
               /\ Range(call.out.val) =
                      {ChannelEntry(e.package_name, e.channel_name,
                                    e.operatorbundle_name, call.args[1]) : e \in S}

\* A chain head -> A -> B of one channel: the call for B's bundle returned
\* the entry of A and nothing else.
C5_Witness ==
    /\ LiveCall("GetChannelEntriesThatReplace")
    /\ call.out.kind = "ok"
    /\ \E h, a, b \in channel_entry :
           /\ h.replaces = a.entry_id
           /\ a.replaces = b.entry_id
           /\ b.operatorbundle_name = call.args[1]
           /\ a.operatorbundle_name # call.args[1]
           /\ call.out.val = <<ChannelEntry(a.package_name, a.channel_name,
                                            a.operatorbundle_name, call.args[1])>>

-----------------------------------------------------------------------------
(* C6: GetBundleThatReplaces.                                              *)

\* The entries of channel (pkgName, channelName) whose replaces reference
\* names the entry of that channel carrying the bundle name.
ReplacersIn(name, pkgName, channelName) ==
    {r \in channel_entry :
        /\ r.package_name = pkgName
        /\ r.channel_name = channelName
        /\ \E e \in channel_entry :
               /\ e.entry_id = r.replaces
               /\ e.operatorbundle_name = name
               /\ e.package_name = pkgName
               /\ e.channel_name = channelName}

\* C6: on success the payload returned is that of the bundle of an entry of
\* (P, Ch) that replaces the entry of (P, Ch) carrying B, an entry that
\* GetChannelEntriesThatReplace(B) lists for (P, Ch); with no such entry the
\* call fails NotFound.
C6_ReplacerOfTheChannel ==
    LiveCall("GetBundleThatReplaces") =>
        LET R == ReplacersIn(call.args[1], call.args[2], call.args[3]) IN
        /\ R = {} => call.out.kind = "notfound"
        /\ call.out.kind = "ok" =>
               \E r \in R :
                   /\ \E b \in PayloadsOf(r.operatorbundle_name) :
                          call.out.val = (IF b = NULL THEN "" ELSE b)
                   /\ <<call.args[2], call.args[3], r.operatorbundle_name>>
                          \in GetChannelEntriesThatReplaceRows(call.args[1])

\* The call failed NotFound for a channel that holds B unreplaced, on a
\* catalog where an entry of another channel replaces B.
C6_Witness ==
    /\ LiveCall("GetBundleThatReplaces")
    /\ call.out.kind = "notfound"
    /\ \E e \in channel_entry :
           /\ e.operatorbundle_name = call.args[1]
           /\ e.package_name = call.args[2]
           /\ e.channel_name = call.args[3]
    /\ \E r \in DirectReplacers(call.args[1]) :
           <<r.package_name, r.channel_name>> # <<call.args[2], call.args[3]>>

-----------------------------------------------------------------------------
(* C7: null columns.                                                       *)

-----------------------------------------------------------------------------
(* C8: the empty store.                                                    *)

EmptyStore ==
    /\ package = {}
    /\ channel = {}
    /\ operatorbundle = {}
    /\ channel_entry = {}
    /\ api_provider = {}

\* C8: on a store without rows ListPackages succeeds with the empty list,
\* and every other operation, whatever its arguments, fails NotFound and
\* returns no value beside the error.
C8_EmptyStore ==
    EmptyStore /\ call.op # "none" /\ call.ctx = "live" =>
        CASE call.op = "ListPackages" ->
                 call.out = Ok(<<>>)
          [] call.op = "GetPackage" ->
                 call.out = Failed("notfound", TRUE, NoManifest)
          [] call.op \in {"GetBundleForChannel", "GetBundleForName",
                          "GetBundleThatReplaces", "GetBundleThatProvides"} ->
                 call.out.kind = "notfound" /\ call.out.val = ""
          [] OTHER ->
                 call.out.kind = "notfound" /\ call.out.val = <<>>

\* ListPackages has returned on the empty store.
C8_Witness ==
    /\ EmptyStore
    /\ LiveCall("ListPackages")
    /\ call.out.kind = "ok"

-----------------------------------------------------------------------------
(* C10: the two provider listings.                                         *)

\* What the data model says GetChannelEntriesThatProvide lists: every entry
\* associated with the API, with the bundle name of the entry it replaces.
ProvidingEntries(api) ==
    {ChannelEntry(e.package_name, e.channel_name, e.operatorbundle_name,
                  ReplacedName(e)) : e \in ProvidersOf(api)}

\* C10: GetChannelEntriesThatProvide returns every entry associated with the
\* API, with Replaces the bundle name of the entry it replaces (empty when
\* it replaces nothing); GetLatestChannelEntriesThatProvide fails NotFound
\* on exactly the same inputs, and every entry it returns is, as the full
\* tuple, an entry GetChannelEntriesThatProvide returns.
C10_ListingsAgree ==
    /\ LiveCall("GetChannelEntriesThatProvide") =>
           /\ call.out.kind = "notfound" <=> ProvidingEntries(call.args) = {}
           /\ call.out.kind = "ok" <=> ProvidingEntries(call.args) # {}
           /\ call.out.kind = "ok" => Range(call.out.val) = ProvidingEntries(call.args)
    /\ LiveCall("GetLatestChannelEntriesThatProvide") =>
           /\ call.out.kind = "notfound" <=> ProvidingEntries(call.args) = {}
           /\ call.out.kind = "ok" <=> ProvidingEntries(call.args) # {}
           /\ call.out.kind = "ok" =>
                  /\ Range(call.out.val) \subseteq ProvidingEntries(call.args)
                  /\ \A o \in Orders(GetChannelEntriesThatProvideRows(
                                         call.args[1], call.args[2], call.args[3])) :
                         Range(call.out.val) \subseteq
                             Range(GetChannelEntriesThatProvideReturn("live", o).val)

\* The latest listing returned an entry that replaces another, on a catalog
\* where the full listing holds more entries than the latest one.
C10_Witness ==
    /\ LiveCall("GetLatestChannelEntriesThatProvide")
    /\ call.out.kind = "ok"
    /\ \E i \in 1 .. Len(call.out.val) : call.out.val[i].Replaces # ""
    /\ Cardinality(ProvidingEntries(call.args)) > Len(call.out.val)

=============================================================================
